---- MODULE Spec2Model ----
(***************************************************************************)
(* Logistic regression over CKKS ciphertexts (logistic_regression_ckks.cpp)*)
(*                                                                         *)
(* A ciphertext or plaintext is a record                                   *)
(*     [ok, level, scale, den, v]                                          *)
(* level : chain index (TopLevel for a fresh encryption, 0 for the last    *)
(*         usable modulus),                                                *)
(* scale : log2 of the CKKS scale, counted in 1/ScaleRes bits,             *)
(* v     : the slot values, a function on 0..SlotCount-1; slot i stands    *)
(*         for the real number v[i] / den.                                 *)
(* A call of the SEAL library that throws yields [ok |-> FALSE, err, at],  *)
(* at being the source line of the throwing call; every later operation    *)
(* on such a value hands it on unchanged, as an exception unwinds the      *)
(* functions of the program (none of them catches).                        *)
(***************************************************************************)
EXTENDS Integers, Sequences, FiniteSets, TLC

VARIABLES fn, pc, args, locals, ret

vars == <<fn, pc, args, locals, ret>>

(***************************************************************************)
(* Bounds of the model.                                                    *)
(***************************************************************************)
\* slots of one ciphertext (POLY_MOD_DEGREE / 2 in the program)
SlotCount == 4
\* side of the square matrices handed to get_diagonal
MaxDim == 3
\* degree of the polynomials handed to Horner_sigmoid_approx
MaxDegree == 3
\* degree handed to compute_all_powers
MaxPower == 7
\* observations (feature rows) and weights (feature columns) of a data set
MaxRows == 2
MaxCols == 2
\* iterations asked of train_cipher
MaxIters == 2
\* largest DEGREE the program is compiled with
MaxConfigDegree == 8
\* resolution of the scale: the scale is 2^(scale / ScaleRes)
ScaleRes == 16

(***************************************************************************)
(* Program constants.                                                      *)
(***************************************************************************)
\* chain index of a fresh encryption: {60, 40 x 7, 60} has 8 data primes
TopLevel == 7
\* bit size of the first prime of the chain
FirstPrimeBits == 60
\* bit size of the primes a rescale drops
DataPrimeBits == 40
\* scale = pow(2.0, 40)
BaseScaleBits == 40
\* #define DEGREE 3
DEGREE == 3
\* EXIT_SUCCESS of <cstdlib>
EXIT_SUCCESS == 0

Slots == 0 .. (SlotCount - 1)

BaseScale == BaseScaleBits * ScaleRes

\* total_coeff_modulus_bit_count of the parameters at chain index l
ModBits(l) == FirstPrimeBits + DataPrimeBits * l

\* log2 of the prime a rescale at chain index l drops: CoeffModulus::Create
\* returns primes just below 2^DataPrimeBits
LogQ(l) == DataPrimeBits * ScaleRes - 1

Err(e, line) == [ok |-> FALSE, err |-> e, at |-> line]

\* exit(status): the process ends with the status, no exception is thrown
Exit(status, line) == [ok |-> FALSE, err |-> "exit", at |-> line, status |-> status]

\* how a call that made value ends
Outcome(value) ==
    IF value.ok THEN "returned" ELSE IF value.err = "exit" THEN "exited" ELSE "threw"

Ct(l, s, d, vals) == [ok |-> TRUE, level |-> l, scale |-> s, den |-> d, v |-> vals]

\* no value: a result not made yet, a default-constructed ciphertext
None == [ok |-> FALSE, err |-> "none", at |-> 0]

\* the first exception of a sequence of values, in the order the code made them
RECURSIVE FirstErr(_)
FirstErr(cts) ==
    IF cts = <<>> THEN None
    ELSE IF ~ Head(cts).ok THEN Head(cts) ELSE FirstErr(Tail(cts))

AllOk(cts) == \A k \in 1 .. Len(cts) : cts[k].ok

Last(seq) == seq[Len(seq)]

Max(a, b) == IF a > b THEN a ELSE b

(***************************************************************************)
(* SEAL, as the program calls it.  line is the source line of the call.    *)
(***************************************************************************)
\* CKKSEncoder::encode(vector<double>, scale, pt): values is a sequence,
\* zero-padded to the slot count, encoded at the top of the chain
encode(values, s, line) ==
    IF Len(values) > SlotCount THEN Err("values has invalid size", line)
    ELSE Ct(TopLevel, s, 1,
            [i \in Slots |-> IF i < Len(values) THEN values[i + 1] ELSE 0])

\* CKKSEncoder::encode(double, scale, pt): the value num / d in every slot
encode_scalar(num, d, s) == Ct(TopLevel, s, d, [i \in Slots |-> num])

\* CKKSEncoder::encode(int64_t, pt): the integer in every slot, scale 1.0
encode_int64(value) == Ct(TopLevel, 0, 1, [i \in Slots |-> value])

\* Encryptor::encrypt: the ciphertext takes the plaintext's parms_id and scale
encrypt(pt) == pt

\* Decryptor::decrypt: the plaintext takes the ciphertext's parms_id and scale
decrypt(ct) == ct

\* the scale of a product must stay below the modulus' bit count
ScaleInBounds(s, l) == s < ModBits(l) * ScaleRes

\* the denominator of a sum, and slot i of a over it
OverDen(a, b) == IF a.den = b.den THEN a.den ELSE a.den * b.den

Num(a, b, i) == IF a.den = b.den THEN a.v[i] ELSE a.v[i] * b.den

\* Evaluator::multiply, multiply_inplace and multiply_plain_inplace
multiply(a, b, line) ==
    IF ~ a.ok THEN a
    ELSE IF ~ b.ok THEN b
    ELSE IF a.level # b.level THEN Err("parameter mismatch", line)
    ELSE IF ~ ScaleInBounds(a.scale + b.scale, a.level)
         THEN Err("scale out of bounds", line)
    ELSE Ct(a.level, a.scale + b.scale, a.den * b.den,
            [i \in Slots |-> a.v[i] * b.v[i]])

\* Evaluator::relinearize_inplace: level, scale and slots stay
relinearize(a) == a

\* Evaluator::rescale_to_next_inplace
rescale_to_next(a, line) ==
    IF ~ a.ok THEN a
    ELSE IF a.level = 0 THEN Err("end of modulus switching chain reached", line)
    ELSE Ct(a.level - 1, a.scale - LogQ(a.level), a.den, a.v)

\* Evaluator::mod_switch_to_inplace(a, parms_id of chain index l)
mod_switch_to(a, l, line) ==
    IF ~ a.ok THEN a
    ELSE IF a.level < l THEN Err("cannot switch to higher level modulus", line)
    ELSE Ct(l, a.scale, a.den, a.v)

\* mod_switch_to_inplace(a, b.parms_id()); b's exception, if b stands for one
mod_switch_to_level_of(a, b, line) ==
    IF ~ b.ok THEN b ELSE mod_switch_to(a, b.level, line)

\* Evaluator::mod_switch_to_next_inplace
mod_switch_to_next(a, line) ==
    IF ~ a.ok THEN a
    ELSE IF a.level = 0 THEN Err("end of modulus switching chain reached", line)
    ELSE Ct(a.level - 1, a.scale, a.den, a.v)

\* Evaluator::rotate_vector: steps > 0 rotates left, steps < 0 right
rotate_vector(a, steps, line) ==
    IF ~ a.ok THEN a
    ELSE IF steps >= SlotCount \/ - steps >= SlotCount
         THEN Err("step count too large", line)
    ELSE Ct(a.level, a.scale, a.den,
            [i \in Slots |-> a.v[(i + steps) % SlotCount]])

\* Evaluator::add, add_inplace and add_plain_inplace
add(a, b, line) ==
    IF ~ a.ok THEN a
    ELSE IF ~ b.ok THEN b
    ELSE IF a.level # b.level THEN Err("parameter mismatch", line)
    ELSE IF a.scale # b.scale THEN Err("scale mismatch", line)
    ELSE Ct(a.level, a.scale, OverDen(a, b),
            [i \in Slots |-> Num(a, b, i) + Num(b, a, i)])

\* Evaluator::sub
sub(a, b, line) ==
    IF ~ a.ok THEN a
    ELSE IF ~ b.ok THEN b
    ELSE IF a.level # b.level THEN Err("parameter mismatch", line)
    ELSE IF a.scale # b.scale THEN Err("scale mismatch", line)
    ELSE Ct(a.level, a.scale, OverDen(a, b),
            [i \in Slots |-> Num(a, b, i) - Num(b, a, i)])

\* Evaluator::negate_inplace
negate(a) ==
    IF ~ a.ok THEN a
    ELSE Ct(a.level, a.scale, a.den, [i \in Slots |-> - a.v[i]])

\* Evaluator::add_many: the operands of a non-empty vector added in order
RECURSIVE add_fold(_, _, _)
add_fold(acc, cts, line) ==
    IF cts = <<>> THEN acc
    ELSE add_fold(add(acc, Head(cts), line), Tail(cts), line)

add_many(cts, line) ==
    IF cts = <<>> THEN Err("operands cannot be empty", line)
    ELSE add_fold(Head(cts), Tail(cts), line)

\* x.scale() = pow(2, (int)log2(x.scale())): the cast drops the fraction
manual_rescale(a) ==
    IF ~ a.ok THEN a
    ELSE Ct(a.level, (a.scale \div ScaleRes) * ScaleRes, a.den, a.v)

\* x.scale() = pow(2.0, 40)
set_scale_2_40(a) ==
    IF ~ a.ok THEN a
    ELSE Ct(a.level, 40 * ScaleRes, a.den, a.v)

(***************************************************************************)
(* get_diagonal, get_all_diagonals.  U is a sequence of rows, each a       *)
(* sequence; U[i + 1][j + 1] is the code's U[i][j].                        *)
(***************************************************************************)
\* one of the two loops of get_diagonal: while (i < ilimit) && (j < jlimit)
\* { diagonal[k] = U[i][j]; k++; } with i++, j++; yields <<diagonal, k>>
RECURSIVE diag_loop(_, _, _, _, _, _, _)
diag_loop(U, i, j, k, ilimit, jlimit, diagonal) ==
    IF i < ilimit /\ j < jlimit
    THEN diag_loop(U, i + 1, j + 1, k + 1, ilimit, jlimit,
                   [diagonal EXCEPT ![k + 1] = U[i + 1][j + 1]])
    ELSE <<diagonal, k>>

\* the second loop, entered with what the first left: <<diagonal, k>>
diag_second(position, U, first) ==
    diag_loop(U, Len(U) - position, 0, first[2], Len(U), position, first[1])[1]

\* get_diagonal without its second loop: the wrapped part is left at zero
get_diagonal_nowrap(position, U) ==
    diag_loop(U, 0, position, 0, Len(U) - position, Len(U),
              [x \in 1 .. Len(U) |-> 0])[1]

get_diagonal(position, U) ==
    diag_second(position, U,
                diag_loop(U, 0, position, 0, Len(U) - position, Len(U),
                          [x \in 1 .. Len(U) |-> 0]))

get_all_diagonals(U) == [i \in 1 .. Len(U) |-> get_diagonal(i - 1, U)]

(***************************************************************************)
(* cipher_dot_product                                                      *)
(***************************************************************************)
\* for (i = 1; i < size; i++) { rotate dup by 1; mult += dup; }
RECURSIVE dot_loop(_, _, _, _)
dot_loop(i, size, mult, dup) ==
    IF i < size
    THEN dot_loop(i + 1, size,
                  add(mult, rotate_vector(dup, 1, 732), 733),
                  rotate_vector(dup, 1, 732))
    ELSE mult

\* the loop and the manual rescale, entered with mult and dup
dot_sum(mult, dup, size) ==
    IF ~ dup.ok THEN dup ELSE manual_rescale(dot_loop(1, size, mult, dup))

\* Fill with duplicate: dup = mult + (mult rotated by -size)
dot_duplicate(mult, size) ==
    dot_sum(mult, add(mult, rotate_vector(mult, - size, 726), 728), size)

cipher_dot_product(ctA, ctB, size) ==
    dot_duplicate(rescale_to_next(relinearize(multiply(ctA, ctB, 720)), 722), size)

(***************************************************************************)
(* Horner_sigmoid_approx.  coeffs is the sequence c_0 .. c_degree of       *)
(* numerators over the denominator cden; coeffs[i + 1] is the code's       *)
(* coeffs[i].                                                              *)
(***************************************************************************)
\* if (ctx_level > temp_level) mod_switch_to_inplace(ctx, temp.parms_id())
horner_ctx(ctx, temp) ==
    IF ctx.level > temp.level THEN mod_switch_to(ctx, temp.level, 809) ELSE ctx

\* else if (ctx_level < temp_level) mod_switch_to_inplace(temp, ctx.parms_id())
horner_temp(ctx, temp) ==
    IF ctx.level < temp.level THEN mod_switch_to(temp, ctx.level, 813) ELSE temp

\* the coefficient mod-switched to temp, the manual rescale, add_plain
horner_add(temp, plain_coeff) ==
    add(set_scale_2_40(temp), mod_switch_to_level_of(plain_coeff, temp, 823), 829)

\* the loop body adding the coefficient of the index above i
horner_step_shifted(i, ctx, temp, plain_coeffs) ==
    horner_add(rescale_to_next(relinearize(
                   multiply(horner_temp(ctx, temp), horner_ctx(ctx, temp), 815)), 820),
               plain_coeffs[i + 2])

\* the loop body without the mod-switch of ctx to the accumulator's level
horner_step_noalign(i, ctx, temp, plain_coeffs) ==
    horner_add(rescale_to_next(relinearize(
                   multiply(horner_temp(ctx, temp), ctx, 815)), 820),
               plain_coeffs[i + 1])

\* one pass of the loop body for index i: the accumulator it leaves
horner_step(i, ctx, temp, plain_coeffs) ==
    horner_add(rescale_to_next(relinearize(
                   multiply(horner_temp(ctx, temp), horner_ctx(ctx, temp), 815)), 820),
               plain_coeffs[i + 1])

\* for (i = degree - 1; i >= 0; i--); yields the accumulator after every
\* pass, the value it had before the loop first
RECURSIVE horner_loop(_, _, _, _)
horner_loop(i, ctx, temps, plain_coeffs) ==
    IF i < 0 \/ ~ Last(temps).ok THEN temps
    ELSE horner_loop(i - 1, horner_ctx(ctx, Last(temps)),
                     Append(temps, horner_step(i, ctx, Last(temps), plain_coeffs)),
                     plain_coeffs)

\* encryptor.encrypt(plain_coeffs[degree], temp); and the loop
horner_run(ctx, degree, plain_coeffs) ==
    horner_loop(degree - 1, ctx, <<encrypt(plain_coeffs[degree + 1])>>, plain_coeffs)

Horner_trace(ctx, degree, coeffs, cden, scale) ==
    IF ~ ctx.ok THEN <<ctx>>
    ELSE horner_run(ctx, degree,
                    [i \in 1 .. (degree + 1) |-> encode_scalar(coeffs[i], cden, scale)])

Horner_sigmoid_approx(ctx, degree, coeffs, cden, scale) ==
    Last(Horner_trace(ctx, degree, coeffs, cden, scale))

(***************************************************************************)
(* compute_all_powers                                                      *)
(***************************************************************************)
\* the search with the bound j < i / 2
RECURSIVE split_search_short(_, _, _, _, _)
split_search_short(i, j, levels, cand, minlevel) ==
    IF j < i \div 2
    THEN IF Max(levels[j], levels[i - j]) + 1 < minlevel
         THEN split_search_short(i, j + 1, levels, j, Max(levels[j], levels[i - j]) + 1)
         ELSE split_search_short(i, j + 1, levels, cand, minlevel)
    ELSE <<cand, minlevel>>

\* the search that takes every split at least as good as the best so far
RECURSIVE split_search_last(_, _, _, _, _)
split_search_last(i, j, levels, cand, minlevel) ==
    IF j <= i \div 2
    THEN IF Max(levels[j], levels[i - j]) + 1 <= minlevel
         THEN split_search_last(i, j + 1, levels, j, Max(levels[j], levels[i - j]) + 1)
         ELSE split_search_last(i, j + 1, levels, cand, minlevel)
    ELSE <<cand, minlevel>>

\* for (j = 1; j <= i / 2; j++): the search for the split of i, newlevel
\* being max(levels[j], levels[i - j]) + 1; yields <<cand, minlevel>>
RECURSIVE split_search(_, _, _, _, _)
split_search(i, j, levels, cand, minlevel) ==
    IF j <= i \div 2
    THEN IF Max(levels[j], levels[i - j]) + 1 < minlevel
         THEN split_search(i, j + 1, levels, j, Max(levels[j], levels[i - j]) + 1)
         ELSE split_search(i, j + 1, levels, cand, minlevel)
    ELSE <<cand, minlevel>>

\* the product with powers[i - cand] mod-switched to powers[cand]
power_product_reversed(powers, i, cand) ==
    rescale_to_next(relinearize(
        multiply(powers[cand],
                 mod_switch_to(powers[i - cand], powers[cand].level, 421), 423)), 427)

\* temp = powers[cand] mod-switched to powers[i - cand]; multiply,
\* relinearize, rescale
power_product(powers, i, cand) ==
    rescale_to_next(relinearize(
        multiply(mod_switch_to(powers[cand], powers[i - cand].level, 421),
                 powers[i - cand], 423)), 427)

\* for (i = 2; i <= degree; i++); yields [ok, powers, levels, cands] or the
\* exception, cands[i] being the cand of the pass for i
RECURSIVE powers_loop(_, _, _, _, _)
RECURSIVE powers_store(_, _, _, _, _, _)
RECURSIVE powers_split(_, _, _, _, _, _)
powers_loop(i, degree, powers, levels, cands) ==
    IF i > degree
    THEN [ok |-> TRUE, powers |-> powers, levels |-> levels, cands |-> cands]
    ELSE powers_split(i, degree, powers, levels, cands,
                      split_search(i, 1, levels, -1, i))

\* levels[i] = minlevel; if (cand < 0) throw; found is <<cand, minlevel>>
powers_split(i, degree, powers, levels, cands, found) ==
    IF found[1] < 0 THEN Err("error", 418)
    ELSE powers_store(i, degree, powers, [levels EXCEPT ![i] = found[2]],
                      [cands EXCEPT ![i] = found[1]],
                      power_product(powers, i, found[1]))

\* powers[i] is the product, unless making it threw
powers_store(i, degree, powers, levels, cands, power) ==
    IF ~ power.ok THEN power
    ELSE powers_loop(i + 1, degree, [powers EXCEPT ![i] = power], levels, cands)

\* powers[0] stays a default-constructed ciphertext: the model leaves it out
compute_all_powers(ctx, degree) ==
    powers_loop(2, degree,
                [k \in 1 .. degree |-> IF k = 1 THEN ctx ELSE None],
                [k \in 0 .. degree |-> 0],
                [k \in 2 .. degree |-> -1])

(***************************************************************************)
(* Tree_sigmoid_approx.  coeffs is the sequence c_0 .. c_degree of         *)
(* numerators over the denominator cden.                                   *)
(***************************************************************************)
\* a default-constructed Plaintext: parms_id_zero (here the level -1), not
\* in NTT form, scale 1.0, no coefficients
Plaintext == Ct(-1, 0, 1, [i \in Slots |-> 0])

\* Plaintext::is_ntt_form: parms_id != parms_id_zero
is_ntt_form(pt) == pt.level # -1

\* vector<Plaintext> plain_coeffs(degree + 1); if (coeffs[i] == 0) continue;
\* encode(coeffs[i], scale, plain_coeffs[i])
tree_plain_coeffs(degree, coeffs, cden, scale) ==
    [i \in 1 .. (degree + 1) |->
        IF coeffs[i] = 0 THEN Plaintext ELSE encode_scalar(coeffs[i], cden, scale)]

\* encryptor.encrypt(plain_coeffs[0], enc_result): a CKKS plaintext must be
\* in NTT form
tree_encrypt(pt) ==
    IF ~ is_ntt_form(pt) THEN Err("plain is not valid for encryption parameters", 650)
    ELSE encrypt(pt)

\* mod_switch_to_inplace(plain_coeffs[i], powers[i].parms_id())
tree_switch(pt, power) ==
    IF ~ is_ntt_form(pt) THEN Err("plain is not valid for encryption parameters", 669)
    ELSE mod_switch_to(pt, power.level, 669)

\* multiply_plain(powers[i], plain_coeffs[i], temp); rescale_to_next_inplace(temp)
tree_term(power, pt) ==
    rescale_to_next(multiply(power, tree_switch(pt, power), 672), 675)

\* temp.scale() = pow(2.0, (int)log2(enc_result.scale())); add_inplace
tree_add(enc_result, temp) ==
    IF ~ enc_result.ok THEN enc_result
    ELSE add(enc_result,
             manual_rescale(Ct(temp.level, enc_result.scale, temp.den, temp.v)), 686)

\* enc_result mod-switched to temp, its manual rescale, the addition
tree_pass(enc_result, temp) ==
    tree_add(manual_rescale(mod_switch_to_level_of(enc_result, temp, 678)), temp)

\* for (i = 1; i <= degree; i++)
RECURSIVE tree_loop(_, _, _, _, _)
tree_loop(i, degree, powers, plain_coeffs, enc_result) ==
    IF i > degree \/ ~ enc_result.ok THEN enc_result
    ELSE tree_loop(i + 1, degree, powers, plain_coeffs,
                   tree_pass(enc_result, tree_term(powers[i], plain_coeffs[i + 1])))

\* the evaluation after compute_all_powers, all being what it left
tree_from_powers(all, degree, plain_coeffs) ==
    IF ~ all.ok THEN all
    ELSE tree_loop(1, degree, all.powers, plain_coeffs, tree_encrypt(plain_coeffs[1]))

Tree_sigmoid_approx(ctx, degree, coeffs, cden, scale) ==
    tree_from_powers(compute_all_powers(ctx, degree), degree,
                     tree_plain_coeffs(degree, coeffs, cden, scale))

(***************************************************************************)
(* predict_cipher_weights, update_weights, train_cipher                    *)
(***************************************************************************)
\* the coefficient tables, as numerators over den; for a degree without
\* a table: cerr << "Invalid DEGREE"; exit(EXIT_SUCCESS); line is the line
\* of the exit
coeff_table(degree, line) ==
    IF degree = 3
    THEN [ok |-> TRUE, den |-> 100000, coeffs |-> <<50000, 120069, 1, -81562>>]
    ELSE IF degree = 5
    THEN [ok |-> TRUE, den |-> 10000000,
          coeffs |-> <<5000000, 15304800, 100, -23533056, 100, 13511295>>]
    ELSE IF degree = 7
    THEN [ok |-> TRUE, den |-> 100000,
          coeffs |-> <<50000, 173496, 1, -419407, 1, 543402, 1, -250739>>]
    ELSE Exit(EXIT_SUCCESS, line)

\* the tables of predict_cipher_weights
SigmoidCoeffs(degree) == coeff_table(degree, 906)

\* the tables of main
MainCoeffs(degree) == coeff_table(degree, 1267)

\* vector<double> mask_vec(n, 0); mask_vec[i] = 1;
mask_vec(n, i) == [k \in 1 .. n |-> IF k = i + 1 THEN 1 ELSE 0]

\* add_many over the results of a loop, unless the loop threw before it
sum_rows(results, line) ==
    IF ~ AllOk(results) THEN FirstErr(results) ELSE add_many(results, line)

\* the body of the loop over the rows, for row i
predict_row(features, weights, num_weights, scale, i) ==
    multiply(cipher_dot_product(features[i + 1], weights, num_weights),
             mod_switch_to_next(encode(mask_vec(Len(features), i), scale, 864), 866),
             868)

\* the linear transformation: rows, add_many, relinearize, rescale, manual rescale
linear_transform(features, weights, num_weights, scale) ==
    manual_rescale(rescale_to_next(relinearize(
        sum_rows([i \in 1 .. Len(features) |->
                     predict_row(features, weights, num_weights, scale, i - 1)],
                 879)), 885))

\* Horner_sigmoid_approx(lintransf_vec, coeffs.size() - 1, coeffs, ...)
sigmoid_with(lintransf_vec, table, scale) ==
    IF ~ lintransf_vec.ok THEN lintransf_vec
    ELSE IF ~ table.ok THEN table
    ELSE Horner_sigmoid_approx(lintransf_vec, Len(table.coeffs) - 1,
                               table.coeffs, table.den, scale)

\* the sigmoid over the result of the linear transformation
\* degree is the DEGREE the program was compiled with
sigmoid_of(lintransf_vec, scale, degree) ==
    sigmoid_with(lintransf_vec, SigmoidCoeffs(degree), scale)

predict_from(lintransf_vec, scale, degree) ==
    [lintransf_vec |-> lintransf_vec,
     predict_res |-> sigmoid_of(lintransf_vec, scale, degree)]

\* what predict_cipher_weights computes: lintransf_vec and predict_res
predict_stages(features, weights, num_weights, scale, degree) ==
    predict_from(linear_transform(features, weights, num_weights, scale), scale, degree)

predict_cipher_weights(features, weights, num_weights, scale) ==
    predict_stages(features, weights, num_weights, scale, DEGREE).predict_res

\* Calculate Predictions - Labels
residual(predictions, labels) ==
    sub(predictions, mod_switch_to_level_of(labels, predictions, 936), 938)

\* the body of the loop over the weights, for weight i
gradient_row(features_T, pred_labels, num_observations, scale, i) ==
    multiply(cipher_dot_product(mod_switch_to_level_of(features_T[i + 1], pred_labels, 948),
                                pred_labels, num_observations),
             encode(mask_vec(Len(features_T), i), scale, 955),
             957)

\* Calculate Gradient vector: rows, add_many, relinearize, rescale, manual rescale
gradient_of(features_T, pred_labels, num_observations, scale) ==
    manual_rescale(rescale_to_next(relinearize(
        sum_rows([i \in 1 .. Len(features_T) |->
                     gradient_row(features_T, pred_labels, num_observations, scale, i - 1)],
                 968)), 973))

\* double N = learning_rate / num_observations; ckks_encoder.encode(N, N_pt):
\* of the overloads of encode only encode(int64_t, Plaintext&) takes two
\* arguments, so N is converted to an integer, which drops its fraction
\* (learning_rate is lr.num / lr.den, both positive)
step_plain(lr, num_observations) ==
    encode_int64(lr.num \div (lr.den * num_observations))

\* sub(gradient, weights, new_weights); negate_inplace(new_weights)
apply_sub(N_pt, scaled, weights) ==
    [N_pt |-> N_pt, scaled |-> scaled,
     new_weights |-> negate(sub(scaled, weights, 991))]

\* multiply_plain_inplace(gradient, N_pt)
apply_step(gradient, weights, N_pt) ==
    apply_sub(N_pt, multiply(gradient, N_pt, 986), weights)

\* Multiply by learning_rate/observations, subtract from weights: N_pt, the
\* gradient after the multiplication, new_weights
rescale_and_apply_stages(gradient, weights, lr, num_observations) ==
    apply_step(gradient, weights,
               mod_switch_to_level_of(step_plain(lr, num_observations), gradient, 985))

rescale_and_apply(gradient, weights, lr, num_observations) ==
    rescale_and_apply_stages(gradient, weights, lr, num_observations).new_weights

update_from_gradient(predictions, pred_labels, gradient, weights, lr, num_observations) ==
    [predictions |-> predictions, pred_labels |-> pred_labels, gradient |-> gradient,
     new_weights |-> rescale_and_apply(gradient, weights, lr, num_observations)]

update_from_residual(predictions, pred_labels, features_T, weights, lr, scale, num_observations) ==
    update_from_gradient(predictions, pred_labels,
                         gradient_of(features_T, pred_labels, num_observations, scale),
                         weights, lr, num_observations)

update_from_predictions(predictions, features_T, labels, weights, lr, scale, num_observations) ==
    update_from_residual(predictions, residual(predictions, labels),
                         features_T, weights, lr, scale, num_observations)

\* what update_weights computes, stage by stage: predictions, pred_labels,
\* gradient, new_weights
update_weights_stages(features, features_T, labels, weights, lr, scale) ==
    update_from_predictions(
        predict_cipher_weights(features, weights, Len(features_T), scale),
        features_T, labels, weights, lr, scale, Len(features))

update_weights(features, features_T, labels, weights, lr, scale) ==
    update_weights_stages(features, features_T, labels, weights, lr, scale).new_weights

\* mod_switch_to_inplace(ct, target.parms_id()) on the callee's copy ct: the
\* copy after it, unchanged if the line was not reached or threw
copy_after_switch(ct, target, line) ==
    IF target.ok /\ mod_switch_to(ct, target.level, line).ok
    THEN mod_switch_to(ct, target.level, line)
    ELSE ct

\* the pass of the Gradient loop for weight i is reached when pred_labels
\* was made and no pass before it threw
gradient_row_reached(features_T, pred_labels, num_observations, scale, i) ==
    /\ pred_labels.ok
    /\ \A k \in 0 .. (i - 1) :
         gradient_row(features_T, pred_labels, num_observations, scale, k).ok

\* update_weights' own features, features_T and labels when it ends: labels
\* mod-switched at line 936, features_T[i] at line 948
update_weights_copies(features, features_T, labels, scale, stages) ==
    [features |-> features,
     features_T |->
        [i \in 1 .. Len(features_T) |->
            IF gradient_row_reached(features_T, stages.pred_labels, Len(features),
                                    scale, i - 1)
            THEN copy_after_switch(features_T[i], stages.pred_labels, 948)
            ELSE features_T[i]],
     labels |-> copy_after_switch(labels, stages.predictions, 936)]

\* the arguments taken by reference: the caller's objects are the callee's
passed_by_reference(held, copies) == copies

\* update_weights(vector<Ciphertext> features, vector<Ciphertext> features_T,
\* Ciphertext labels, ...) takes them by value: the caller's objects stay
\* what they were, whatever the callee did to its copies
passed_by_value(held, copies) == held

\* pow(base, exponent) for the integer exponents of the source
RECURSIVE pow(_, _)
pow(base, exponent) == IF exponent = 0 THEN 1 ELSE base * pow(base, exponent - 1)

\* sigmoid_approx_three: res as the numerator num over den, the terms in the
\* order and with the coefficients and exponents of the source; x / 8 is
\* exact for the x of the model, the multiples of 8
sigmoid_approx_three(x, degree) ==
    IF degree = 3
    THEN [ok |-> TRUE, den |-> 100000,
          num |-> 50000 + (120096 * (x \div 8)) - (81562 * pow(x \div 8, 3))]
    ELSE IF degree = 5
    THEN [ok |-> TRUE, den |-> 10000000,
          num |-> 5000000 + (15304800 * (x \div 8)) - (23533056 * pow(x \div 8, 3))
                    + (13511295 * pow(x \div 8, 5))]
    ELSE IF degree = 7
    THEN [ok |-> TRUE, den |-> 100000,
          num |-> 50000 + (173496 * (x \div 8)) - (419407 * pow(x \div 8, 3))
                    + (543402 * pow(x \div 8, 5)) - (250739 * pow(x \div 8, 3))]
    ELSE Exit(EXIT_SUCCESS, 1059)

\* Refresh weights: decrypt, (decode for the log,) encrypt the decrypted plaintext
refresh(new_weights) ==
    IF ~ new_weights.ok THEN new_weights ELSE encrypt(decrypt(new_weights))

\* transpose_matrix
transpose_matrix(input_matrix) ==
    [j \in 1 .. Len(input_matrix[1]) |->
        [i \in 1 .. Len(input_matrix) |-> input_matrix[i][j]]]

(***************************************************************************)
(* The calls.  fn is the function entered, args its arguments, locals the  *)
(* locals that outlive one step, ret what it returned or the exception     *)
(* that left it.                                                           *)
(***************************************************************************)
\* values a test vector is filled with
Vals == {1, 2}

\* square matrices of side n: the entries all different, counted from o;
\* and a single 1 at row a, column b
Counting(n, o) == [i \in 1 .. n |-> [j \in 1 .. n |-> o + n * (i - 1) + (j - 1)]]

OneHot(n, a, b) == [i \in 1 .. n |-> [j \in 1 .. n |-> IF i = a /\ j = b THEN 1 ELSE 0]]

Matrices(n) ==
    {Counting(n, o) : o \in {0, 1}} \cup {OneHot(n, a, b) : a \in 1 .. n, b \in 1 .. n}

\* a fresh encryption of the values vals[0..size-1], zero-padded
Fresh(size, vals) ==
    Ct(TopLevel, BaseScale, 1, [i \in Slots |-> IF i < size THEN vals[i] ELSE 0])

InitDiagonal ==
    /\ fn \in {"get_diagonal", "get_all_diagonals"}
    /\ \E n \in 1 .. MaxDim :
         \E U \in Matrices(n) :
           \E position \in 0 .. (n - 1) :
             args = [U |-> U,
                     position |-> IF fn = "get_diagonal" THEN position ELSE 0]

\* a ciphertext with the scale sc in place of its own
WithScale(a, sc) == Ct(a.level, sc, a.den, a.v)

\* the operands fresh, or both at the last modulus of the chain; ctB at the
\* base scale or at a scale slightly below it
InitDot ==
    /\ fn = "cipher_dot_product"
    /\ \E size \in 1 .. SlotCount :
         \E a \in [0 .. (size - 1) -> Vals] :
           \E b \in [0 .. (size - 1) -> Vals] :
             \E l \in {0, TopLevel} :
               \E sc \in {BaseScale, BaseScale - 2} :
                 args = [ctA |-> mod_switch_to(Fresh(size, a), l, 0),
                         ctB |-> WithScale(mod_switch_to(Fresh(size, b), l, 0), sc),
                         size |-> size]

\* the inputs of the polynomial evaluations: one value per slot
XVecs == {[i \in Slots |-> i - 1], [i \in Slots |-> 2]}

\* a ciphertext of the values vals at chain index l
AtLevel(l, vals) == Ct(l, BaseScale, 1, vals)

InitHorner ==
    /\ fn = "Horner_sigmoid_approx"
    /\ \E degree \in 0 .. MaxDegree :
         \E coeffs \in [1 .. (degree + 1) -> {-1, 0, 2}] :
           \E l \in 0 .. TopLevel :
             \E x \in XVecs :
               \E scale \in {BaseScale, BaseScale + ScaleRes} :
                 args = [ctx |-> AtLevel(l, x), degree |-> degree, coeffs |-> coeffs,
                         cden |-> 1, scale |-> scale]

\* levels with room for the powers and the terms, and the last modulus
InitTree ==
    /\ fn = "Tree_sigmoid_approx"
    /\ \E degree \in 1 .. MaxDegree :
         \E coeffs \in [1 .. (degree + 1) -> {-1, 0, 2}] :
           \E l \in {0, TopLevel - 1, TopLevel} :
             \E x \in XVecs :
               args = [ctx |-> AtLevel(l, x), degree |-> degree, coeffs |-> coeffs,
                       cden |-> 1, scale |-> BaseScale]

InitPowers ==
    /\ fn = "compute_all_powers"
    /\ \E degree \in 2 .. MaxPower :
         \E l \in 0 .. TopLevel :
           \E x \in XVecs :
             args = [ctx |-> AtLevel(l, x), degree |-> degree]

\* main: encode at the base scale, encrypt
Encrypted(values) == encrypt(encode(values, BaseScale, 1446))

EncryptedRows(matrix) == [i \in 1 .. Len(matrix) |-> Encrypted(matrix[i])]

\* feature matrices of rows x cols
FeatureMatrices(rows, cols) == [1 .. rows -> [1 .. cols -> Vals]]

\* main with the base scale sc: encode at it, encrypt, and the ciphertext
\* brought to chain index l
EncryptedAt(values, sc, l) == mod_switch_to(encrypt(encode(values, sc, 1446)), l, 0)

\* args.DEGREE is the DEGREE the program was compiled with: the 3 of the
\* source, or the next degree, which has no table; the base scale is the
\* 2^40 of the source, or 2^41
InitPredict ==
    /\ fn = "predict_cipher_weights"
    /\ \E rows \in 1 .. MaxRows, cols \in 1 .. MaxCols :
         \E features \in FeatureMatrices(rows, cols) :
           \E weights \in [1 .. cols -> Vals] :
             \E l \in {0, 1, TopLevel - 1, TopLevel} :
               \E d \in {DEGREE, DEGREE + 1} :
                 \E sc \in {BaseScale, BaseScale + ScaleRes} :
                   args = [features |-> [i \in 1 .. rows |->
                                            EncryptedAt(features[i], sc, l)],
                           weights |-> EncryptedAt(weights, sc, l),
                           num_weights |-> cols, scale |-> sc, DEGREE |-> d]

\* main up to the choice of its coefficient table, for every DEGREE the
\* program can be compiled with
InitMain ==
    /\ fn = "main"
    /\ \E d \in 0 .. MaxConfigDegree : args = [DEGREE |-> d]

\* the inputs of the plaintext reference: x with x / 8 in -1 .. 2
RefInputs == {-8, 0, 8, 16}

InitSigmoidRef ==
    /\ fn = "sigmoid_approx_three"
    /\ \E d \in 0 .. MaxConfigDegree :
         \E x \in RefInputs : args = [x |-> x, DEGREE |-> d]

\* the labels of the data sets: observation i has label i mod 2
Labels(rows) == [i \in 1 .. rows |-> i % 2]

\* learning rates: LEARNING_RATE 0.1, and 2.0
LearningRates == {[num |-> 1, den |-> 10], [num |-> 2, den |-> 1]}

\* the arguments update_weights and train_cipher share
TrainingArgs(features, weights, lr) ==
    [features |-> EncryptedRows(features),
     features_T |-> EncryptedRows(transpose_matrix(features)),
     labels |-> Encrypted(Labels(Len(features))),
     weights |-> Encrypted(weights),
     learning_rate |-> lr, scale |-> BaseScale]

InitUpdate ==
    /\ fn = "update_weights"
    /\ \E rows \in 1 .. MaxRows, cols \in 1 .. MaxCols :
         \E features \in FeatureMatrices(rows, cols) :
           \E weights \in [1 .. cols -> Vals] :
             \E lr \in LearningRates :
               args = TrainingArgs(features, weights, lr)

InitTrain ==
    /\ fn = "train_cipher"
    /\ \E rows \in 1 .. MaxRows, cols \in 1 .. MaxCols :
         \E features \in FeatureMatrices(rows, cols) :
           \E iters \in 0 .. MaxIters :
             args = TrainingArgs(features, [j \in 1 .. cols |-> 1],
                                 [num |-> 1, den |-> 10])
                    @@ [iters |-> iters]

\* The Gradient stage of update_weights throws for every input (its mask is
\* encoded at the top of the chain and multiplied into a dot product that is
\* below it), so no run from the entry of update_weights or train_cipher
\* gets behind it.  The two blocks behind it are entered here with what
\* the block before would hand on: the Rescale-and-Apply stage with a
\* gradient DEGREE + 4 rescales below the top, the refresh with a
\* ciphertext at any level and with several scales.
OnesMatrix(rows, cols) == [i \in 1 .. rows |-> [j \in 1 .. cols |-> 1]]

GradientLevel == TopLevel - (DEGREE + 4)

InitApply ==
    /\ fn = "update_weights"
    /\ pc = "rescale_and_apply"
    /\ ret = None
    /\ \E rows \in 1 .. MaxRows, cols \in 1 .. MaxCols :
         \E weights \in [1 .. cols -> Vals] :
           \E lr \in LearningRates :
             \E g \in [0 .. (cols - 1) -> {-2, 1, 4}] :
               /\ args = TrainingArgs(OnesMatrix(rows, cols), weights, lr)
               /\ locals = [gradient |->
                               Ct(GradientLevel, BaseScale, 1,
                                  [i \in Slots |-> IF i < cols THEN g[i] ELSE 0])]

InitRefresh ==
    /\ fn = "train_cipher"
    /\ pc = "refresh"
    /\ ret = None
    /\ \E rows \in 1 .. MaxRows, cols \in 1 .. MaxCols :
         \E iters \in 1 .. MaxIters :
           \E l \in 0 .. TopLevel :
             \E sc \in {BaseScale, BaseScale + 1, BaseScale + ScaleRes} :
               /\ args = TrainingArgs(OnesMatrix(rows, cols), [j \in 1 .. cols |-> 1],
                                      [num |-> 1, den |-> 10])
                          @@ [iters |-> iters]
               /\ locals = [i |-> 0,
                            new_weights |->
                               Ct(l, sc, 1, [i \in Slots |-> IF i < cols THEN 1 ELSE 0]),
                            features |-> args.features,
                            features_T |-> args.features_T,
                            labels |-> args.labels]

InitEntry ==
    /\ pc = "entry"
    /\ locals = <<>>
    /\ ret = None
    /\ \/ InitDiagonal
       \/ InitDot
       \/ InitHorner
       \/ InitTree
       \/ InitPowers
       \/ InitPredict
       \/ InitMain
       \/ InitSigmoidRef
       \/ InitUpdate
       \/ InitTrain

Init ==
    \/ InitEntry
    \/ InitApply
    \/ InitRefresh

Return(value) ==
    /\ pc' = "returned"
    /\ ret' = value
    /\ UNCHANGED <<fn, args, locals>>

\* the call ends in the value, or in the exception the value stands for
ReturnOrThrow(value) ==
    /\ pc' = Outcome(value)
    /\ ret' = value
    /\ UNCHANGED <<fn, args, locals>>

\* the same, the locals left as kept
EndKeeping(kept, value) ==
    /\ locals' = kept
    /\ pc' = Outcome(value)
    /\ ret' = value
    /\ UNCHANGED <<fn, args>>

EndOfHorner(temps) == EndKeeping(temps, Last(temps))

EndOfPredict(stages) ==
    EndKeeping([lintransf_vec |-> stages.lintransf_vec], stages.predict_res)

EndOfUpdate(stages) == EndKeeping(stages, stages.new_weights)

EndOfApply(stages) ==
    EndKeeping([gradient |-> locals.gradient] @@ stages, stages.new_weights)

GetDiagonal ==
    /\ fn = "get_diagonal" /\ pc = "entry"
    /\ Return(get_diagonal(args.position, args.U))

GetAllDiagonals ==
    /\ fn = "get_all_diagonals" /\ pc = "entry"
    /\ Return(get_all_diagonals(args.U))

CipherDotProduct ==
    /\ fn = "cipher_dot_product" /\ pc = "entry"
    /\ ReturnOrThrow(cipher_dot_product(args.ctA, args.ctB, args.size))

\* locals keeps the accumulator after every pass of the loop
HornerSigmoidApprox ==
    /\ fn = "Horner_sigmoid_approx" /\ pc = "entry"
    /\ EndOfHorner(Horner_trace(args.ctx, args.degree, args.coeffs, args.cden, args.scale))

TreeSigmoidApprox ==
    /\ fn = "Tree_sigmoid_approx" /\ pc = "entry"
    /\ ReturnOrThrow(Tree_sigmoid_approx(args.ctx, args.degree, args.coeffs, args.cden,
                                         args.scale))

ComputeAllPowers ==
    /\ fn = "compute_all_powers" /\ pc = "entry"
    /\ ReturnOrThrow(compute_all_powers(args.ctx, args.degree))

\* locals keeps the result of the linear transformation
PredictCipherWeights ==
    /\ fn = "predict_cipher_weights" /\ pc = "entry"
    /\ EndOfPredict(predict_stages(args.features, args.weights, args.num_weights,
                                   args.scale, args.DEGREE))

\* main: Create coeffs (Change with degree); with a table main goes on to
\* the evaluation of the polynomial
MainCoeffsChosen(table) ==
    IF table.ok
    THEN /\ locals' = [coeffs |-> table]
         /\ pc' = "evaluate"
         /\ ret' = ret
    ELSE /\ locals' = locals
         /\ pc' = Outcome(table)
         /\ ret' = table

MainCreateCoeffs ==
    /\ fn = "main" /\ pc = "entry"
    /\ MainCoeffsChosen(MainCoeffs(args.DEGREE))
    /\ UNCHANGED <<fn, args>>

SigmoidApproxThree ==
    /\ fn = "sigmoid_approx_three" /\ pc = "entry"
    /\ ReturnOrThrow(sigmoid_approx_three(args.x, args.DEGREE))

\* locals keeps the result of every stage
UpdateWeights ==
    /\ fn = "update_weights" /\ pc = "entry"
    /\ EndOfUpdate(update_weights_stages(args.features, args.features_T, args.labels,
                                         args.weights, args.learning_rate, args.scale))

\* update_weights from its Rescale-and-Apply stage on; locals keeps the
\* plaintext of the step and the product
UpdateApply ==
    /\ fn = "update_weights" /\ pc = "rescale_and_apply"
    /\ EndOfApply(rescale_and_apply_stages(locals.gradient, args.weights,
                                           args.learning_rate, Len(args.features)))

\* the features, features_T and labels train_cipher holds, its parameters
Held == [features |-> locals.features, features_T |-> locals.features_T,
         labels |-> locals.labels]

\* Ciphertext new_weights = weights;
TrainEnter ==
    /\ fn = "train_cipher" /\ pc = "entry"
    /\ locals' = [i |-> 0, new_weights |-> args.weights, features |-> args.features,
                  features_T |-> args.features_T, labels |-> args.labels]
    /\ pc' = "loop"
    /\ UNCHANGED <<fn, args, ret>>

\* new_weights = update_weights(...), or the exception leaves train_cipher;
\* held is what train_cipher holds after the call, used the callee's copies
TrainUpdated(new_weights, held, used) ==
    /\ locals' = [i |-> locals.i,
                  new_weights |-> IF new_weights.ok THEN new_weights
                                  ELSE locals.new_weights,
                  features |-> held.features, features_T |-> held.features_T,
                  labels |-> held.labels, used |-> used]
    /\ pc' = IF new_weights.ok THEN "refresh" ELSE Outcome(new_weights)
    /\ ret' = IF new_weights.ok THEN ret ELSE new_weights

TrainCalled(stages, used) ==
    TrainUpdated(stages.new_weights, passed_by_value(Held, used), used)

TrainCall(stages) ==
    TrainCalled(stages,
                update_weights_copies(locals.features, locals.features_T, locals.labels,
                                      args.scale, stages))

\* the loop body up to the return of update_weights
TrainUpdate ==
    /\ fn = "train_cipher" /\ pc = "loop"
    /\ locals.i < args.iters
    /\ TrainCall(update_weights_stages(locals.features, locals.features_T, locals.labels,
                                       locals.new_weights, args.learning_rate,
                                       args.scale))
    /\ UNCHANGED <<fn, args>>

\* the rest of the loop body: Refresh weights, i++
TrainRefresh ==
    /\ fn = "train_cipher" /\ pc = "refresh"
    /\ locals' = [locals EXCEPT !.i = locals.i + 1,
                                !.new_weights = refresh(locals.new_weights)]
    /\ pc' = "loop"
    /\ UNCHANGED <<fn, args, ret>>

TrainReturn ==
    /\ fn = "train_cipher" /\ pc = "loop"
    /\ locals.i >= args.iters
    /\ Return(locals.new_weights)

Next ==
    \/ GetDiagonal
    \/ GetAllDiagonals
    \/ CipherDotProduct
    \/ HornerSigmoidApprox
    \/ TreeSigmoidApprox
    \/ ComputeAllPowers
    \/ PredictCipherWeights
    \/ MainCreateCoeffs
    \/ SigmoidApproxThree
    \/ UpdateWeights
    \/ UpdateApply
    \/ TrainEnter
    \/ TrainUpdate
    \/ TrainRefresh
    \/ TrainReturn

Spec == Init /\ [][Next]_vars

(***************************************************************************)
(* Helpers of the properties.                                              *)
(***************************************************************************)
\* sum of f[i] over i in lo..hi
RECURSIVE SumOver(_, _, _)
SumOver(f, lo, hi) == IF lo > hi THEN 0 ELSE f[lo] + SumOver(f, lo + 1, hi)

Returned(name) == fn = name /\ pc = "returned"

\* d[i] = M[i][(i + p) mod n], with the model's 1-based sequences
IsDiagonal(d, p, M) ==
    /\ Len(d) = Len(M)
    /\ \A i \in 0 .. (Len(M) - 1) : d[i + 1] = M[i + 1][((i + p) % Len(M)) + 1]

(***************************************************************************)
(* C9: get_diagonal(p, M) of an n x n matrix M, 0 <= p < n, is the vector  *)
(* d with d[i] = M[i][(i+p) mod n], and get_all_diagonals(M) is the list   *)
(* of these n vectors for p = 0 .. n-1, in that order.                     *)
(***************************************************************************)
C9_Diagonals ==
    /\ Returned("get_diagonal") => IsDiagonal(ret, args.position, args.U)
    /\ Returned("get_all_diagonals") =>
         /\ Len(ret) = Len(args.U)
         /\ \A p \in 0 .. (Len(args.U) - 1) : IsDiagonal(ret[p + 1], p, args.U)

\* a diagonal that wraps around, of a matrix whose wrapped part is not zero
C9_Witness ==
    /\ Returned("get_diagonal")
    /\ args.position = 2
    /\ args.U = <<<<0, 1, 2>>, <<3, 4, 5>>, <<6, 7, 8>>>>
    /\ ret = <<2, 3, 7>>

(***************************************************************************)
(* C2: for 1 <= size <= N and a, b populated in slots 0..size-1 and zero   *)
(* elsewhere, cipher_dot_product(a, b, size) returns a vector whose slots  *)
(* 0..size-1 each hold the sum over i < size of a[i] * b[i].               *)
(***************************************************************************)
DotOf(a, b, size) == SumOver([i \in 0 .. (size - 1) |-> a.v[i] * b.v[i]], 0, size - 1)

C2_DotProductEverySize ==
    Returned("cipher_dot_product") =>
        \A s \in 0 .. (args.size - 1) :
            ret.v[s] * args.ctA.den * args.ctB.den = DotOf(args.ctA, args.ctB, args.size) * ret.den

\* the same for the sizes that leave room for the duplicate: 2 * size <= N
C2_DotProductHalf ==
    (Returned("cipher_dot_product") /\ 2 * args.size <= SlotCount) =>
        \A s \in 0 .. (args.size - 1) :
            ret.v[s] = DotOf(args.ctA, args.ctB, args.size)

(***************************************************************************)
(* C6: Horner_sigmoid_approx of degree d >= 0 starts its accumulator at    *)
(* c_d and returns in every slot p(x) = sum over i in 0..d of c_i * x^i    *)
(* for that slot's x.                                                      *)
(***************************************************************************)
RECURSIVE Pow(_, _)
Pow(x, k) == IF k = 0 THEN 1 ELSE x * Pow(x, k - 1)

\* sum over i in 0..d of c_i * x^i, c_i being coeffs[i + 1]
PolyAt(coeffs, d, x) == SumOver([i \in 0 .. d |-> coeffs[i + 1] * Pow(x, i)], 0, d)

Entered(name) == fn = name /\ pc # "entry"

C6_HornerValue ==
    /\ Entered("Horner_sigmoid_approx") =>
         \A s \in Slots : locals[1].v[s] = args.coeffs[args.degree + 1]
    /\ Returned("Horner_sigmoid_approx") =>
         \A s \in Slots :
           ret.v[s] * args.cden * args.ctx.den
             = PolyAt(args.coeffs, args.degree, args.ctx.v[s]) * ret.den

\* 2 - x + 2 x^3 at x = -1 (slot 0) and at x = 2 (slot 3)
C6_Witness ==
    /\ Returned("Horner_sigmoid_approx")
    /\ args.degree = 3 /\ args.coeffs = <<2, -1, 0, 2>>
    /\ args.ctx.v[0] = -1 /\ ret.v[0] = 1
    /\ args.ctx.v[3] = 2 /\ ret.v[3] = 16

(***************************************************************************)
(* C7 as stated: for x at level L with at least d rescales left,           *)
(* Horner_sigmoid_approx of degree d returns a ciphertext exactly d levels *)
(* below L.                                                                *)
(***************************************************************************)
C7_HornerLevelsEveryDegree ==
    (Entered("Horner_sigmoid_approx") /\ args.ctx.level >= args.degree) =>
        /\ pc = "returned"
        /\ ret.level = args.ctx.level - args.degree

(***************************************************************************)
(* C7, the part that holds: with the scale 2^40 of main, for d >= 1 and x  *)
(* at level L >= d the call returns, pass k of the loop leaves the         *)
(* accumulator at level L - k, so the result is exactly d levels below L;  *)
(* for d = 0 the result is the fresh encryption of c_0, at the top of the  *)
(* chain whatever the level of x.                                          *)
(***************************************************************************)
C7_HornerLevels ==
    (Entered("Horner_sigmoid_approx") /\ args.ctx.level >= args.degree
       /\ args.scale = BaseScale) =>
        /\ pc = "returned"
        /\ Len(locals) = args.degree + 1
        /\ locals[1].level = TopLevel
        /\ \A k \in 1 .. args.degree : locals[k + 1].level = args.ctx.level - k
        /\ args.degree >= 1 => ret.level = args.ctx.level - args.degree
        /\ args.degree = 0 => ret.level = TopLevel

\* x enters two levels below the top: the accumulator is brought down to x
\* in the first pass, x down to the accumulator in the later ones
C7_Witness ==
    /\ Returned("Horner_sigmoid_approx")
    /\ args.degree = 3 /\ args.ctx.level = TopLevel - 2
    /\ ret.level = TopLevel - 5

(***************************************************************************)
(* C8: for d >= 2 and every i in 2..d, compute_all_powers leaves x^i in    *)
(* powers[i] exactly ceil(log2 i) rescales below the level of x, which for *)
(* i > 2 is at most the i - 1 of repeated multiplication by x.             *)
(***************************************************************************)
RECURSIVE CeilLog2From(_, _)
CeilLog2From(i, k) == IF Pow(2, k) >= i THEN k ELSE CeilLog2From(i, k + 1)

CeilLog2(i) == CeilLog2From(i, 0)

C8_PowerDepth ==
    /\ (Entered("compute_all_powers") /\ args.ctx.level >= CeilLog2(args.degree)) =>
         pc = "returned"
    /\ Returned("compute_all_powers") =>
         \A i \in 2 .. args.degree :
           /\ ret.powers[i].ok
           /\ args.ctx.level - ret.powers[i].level = CeilLog2(i)
           /\ ret.levels[i] = CeilLog2(i)
           /\ i > 2 => args.ctx.level - ret.powers[i].level <= i - 1
           /\ \A s \in Slots : ret.powers[i].v[s] = Pow(args.ctx.v[s], i)

\* x^7 three levels below x, where repeated multiplication needs six
C8_Witness ==
    /\ Returned("compute_all_powers")
    /\ args.degree = 7 /\ args.ctx.level = TopLevel
    /\ ret.powers[7].level = TopLevel - 3
    /\ ret.powers[7].v[3] = 128

Ended(name) == fn = name /\ pc \in {"returned", "threw"}

RowDot(i) == DotOf(args.features[i + 1], args.weights, args.num_weights)

C3_LinearTransform ==
    (Ended("predict_cipher_weights") /\ locals.lintransf_vec.ok) =>
        \A i \in Slots :
            locals.lintransf_vec.v[i] = IF i < Len(args.features) THEN RowDot(i) ELSE 0

(***************************************************************************)
(* C4: the Gradient stage of update_weights, with R observations and C     *)
(* weights, leaves a gradient that holds in slot j < C the sum over i < R  *)
(* of features_T[j][i] * (prediction[i] - label[i]) and 0 in every slot    *)
(* >= C.                                                                   *)
(***************************************************************************)
ColumnDot(j) ==
    SumOver([i \in 0 .. (Len(args.features) - 1) |->
                args.features_T[j + 1].v[i] * locals.pred_labels.v[i]],
            0, Len(args.features) - 1)

C4_GradientValues ==
    (Ended("update_weights") /\ "pred_labels" \in DOMAIN locals) =>
        /\ locals.gradient.ok
        /\ locals.gradient.den = locals.pred_labels.den
        /\ \A j \in Slots :
             locals.gradient.v[j] = IF j < Len(args.features_T) THEN ColumnDot(j) ELSE 0

C11_MaskAligned ==
    (fn \in {"predict_cipher_weights", "update_weights", "train_cipher"} /\ pc = "threw") =>
        ~ (ret.err = "parameter mismatch" /\ ret.at \in {868, 957})

(***************************************************************************)
(* C12: a multiply-then-rescale step of the dot product, the linear        *)
(* transform or the Horner evaluation attempted on a ciphertext at the     *)
(* last modulus ends in a depth-exhaustion error (the product's scale does *)
(* not fit the modulus, or the chain has no next modulus): the step yields *)
(* no ciphertext and no later stage runs.                                  *)
(***************************************************************************)
DepthError(r) ==
    /\ ~ r.ok
    /\ r.err \in {"scale out of bounds", "end of modulus switching chain reached"}

C12_DepthExhaustion ==
    /\ (Ended("cipher_dot_product") /\ args.ctA.level = 0) =>
         (pc = "threw" /\ DepthError(ret))
    /\ (Ended("Horner_sigmoid_approx") /\ args.ctx.level < args.degree) =>
         (pc = "threw" /\ DepthError(ret) /\ Len(locals) = args.ctx.level + 2)
    /\ (Ended("predict_cipher_weights") /\ args.weights.level <= 1) =>
         (pc = "threw" /\ DepthError(ret) /\ ~ locals.lintransf_vec.ok)

\* the same, whatever the exception that ends the linear transform, and for
\* the polynomial with the scale 2^40 of main
C12_ThrowsAtLastModulus ==
    /\ (Ended("cipher_dot_product") /\ args.ctA.level = 0) =>
         (pc = "threw" /\ DepthError(ret))
    /\ (Ended("Horner_sigmoid_approx") /\ args.ctx.level < args.degree
          /\ args.scale = BaseScale) =>
         (pc = "threw" /\ DepthError(ret) /\ Len(locals) = args.ctx.level + 2)
    /\ (Ended("predict_cipher_weights") /\ args.weights.level <= 1) =>
         (pc = "threw" /\ ~ ret.ok /\ ~ locals.lintransf_vec.ok)

(***************************************************************************)
(* C15: when the configured degree is not 3, 5 or 7 the run ends in a      *)
(* fatal configuration error, a failure outcome, with no coefficient table *)
(* selected and no polynomial evaluated, at the degree check of            *)
(* predict_cipher_weights and at the one of main.                          *)
(***************************************************************************)
C15_InvalidDegreeFails ==
    /\ (fn = "predict_cipher_weights" /\ pc # "entry" /\ locals.lintransf_vec.ok
          /\ args.DEGREE \notin {3, 5, 7}) =>
         (pc = "exited" /\ ret.at = 906 /\ ret.status # EXIT_SUCCESS)
    /\ (fn = "main" /\ pc # "entry" /\ args.DEGREE \notin {3, 5, 7}) =>
         (pc = "exited" /\ ret.at = 1267 /\ ret.status # EXIT_SUCCESS)

\* the same without the outcome: the run ends there, nothing is evaluated
C15_InvalidDegreeEnds ==
    /\ (fn = "predict_cipher_weights" /\ pc # "entry" /\ locals.lintransf_vec.ok
          /\ args.DEGREE \notin {3, 5, 7}) =>
         (pc = "exited" /\ ret.at = 906)
    /\ (fn = "main" /\ pc # "entry" /\ args.DEGREE \notin {3, 5, 7}) =>
         (pc = "exited" /\ ret.at = 1267 /\ locals = <<>>)

(***************************************************************************)
(* C13: train_cipher called with k >= 0 iterations runs update_weights     *)
(* and the refresh k times each and then returns the weight ciphertext;    *)
(* with k = 0 it returns the weights it was given.                         *)
(***************************************************************************)
C13_ExactlyKIterations ==
    (fn = "train_cipher" /\ pc \in {"returned", "threw", "exited"}) =>
        /\ pc = "returned"
        /\ locals.i = args.iters
        /\ ret = locals.new_weights
        /\ args.iters = 0 => ret = args.weights

\* what holds of it: the loop is left by return only after k passes, and
\* k = 0 returns the weights given
C13_LoopCount ==
    (fn = "train_cipher" /\ pc = "returned") =>
        /\ locals.i = args.iters
        /\ ret = locals.new_weights
        /\ args.iters = 0 => ret = args.weights

(***************************************************************************)
(* C14: every training iteration runs Predict, Residual, Gradient,         *)
(* Rescale-and-Apply and then Refresh: the step of an iteration that      *)
(* train_cipher starts, which runs the four stages of update_weights,      *)
(* leads to the Refresh, whose output the next iteration reads.            *)
(***************************************************************************)
IterationStarts == fn = "train_cipher" /\ pc = "loop" /\ locals.i < args.iters

AtRefresh == fn = "train_cipher" /\ pc = "refresh"

C14_IterationReachesRefresh == [][IterationStarts => AtRefresh']_vars

\* what holds of it: the weights an iteration starts from are the ones the
\* refresh before it left, and the weights returned are the ones the last
\* refresh left
C14_RefreshFeedsNext ==
    [][(AtRefresh /\ pc' = "loop") =>
          /\ locals'.new_weights = refresh(locals.new_weights)
          /\ locals'.i = locals.i + 1]_vars

(***************************************************************************)
(* C16: in a training iteration every addition and subtraction gets        *)
(* operands of equal scale: the additions of the dot-product fold, the     *)
(* sums of the masked rows and columns, the Horner addition of c_i,        *)
(* prediction - labels, and gradient * step - weights.  None of them       *)
(* throws for a scale mismatch, and the operands of the two subtractions   *)
(* have the same scale.                                                    *)
(***************************************************************************)
EqualScales ==
    /\ (fn \in {"cipher_dot_product", "predict_cipher_weights", "update_weights",
                "train_cipher"} /\ pc = "threw") =>
         ret.err # "scale mismatch"
    /\ (Ended("update_weights") /\ "pred_labels" \in DOMAIN locals
          /\ locals.predictions.ok) =>
         (locals.predictions.scale = args.labels.scale /\ locals.pred_labels.ok)
    /\ (Ended("update_weights") /\ "N_pt" \in DOMAIN locals) =>
         (locals.scaled.ok /\ locals.scaled.scale = args.weights.scale)

C16_EqualScales == EqualScales

\* the part that holds: with the base scale 2^40 of main the operands of
\* every addition and subtraction that runs have equal scales
C16_ScaleOfMain == (fn = "predict_cipher_weights" => args.scale = BaseScale) => EqualScales

(***************************************************************************)
(* C17: the manual renormalization of a scale s sets it to the power of    *)
(* two nearest to s, for s slightly above a power of two and for s         *)
(* slightly below one.  Scales are logarithms in units of 1 / ScaleRes, so *)
(* the powers of two are the multiples of ScaleRes.                        *)
(***************************************************************************)
NearestPowerOfTwo(s) == ((s + ScaleRes \div 2) \div ScaleRes) * ScaleRes

SlightlyOff(s) ==
    /\ s # NearestPowerOfTwo(s)
    /\ s - NearestPowerOfTwo(s) \in (- (ScaleRes \div 4)) .. (ScaleRes \div 4)

\* the scale of the product of the dot product before line 737
DotScaleBefore == rescale_to_next(relinearize(multiply(args.ctA, args.ctB, 720)), 722).scale

C17_NearestPowerOfTwo ==
    (Returned("cipher_dot_product") /\ SlightlyOff(DotScaleBefore)) =>
        ret.scale = NearestPowerOfTwo(DotScaleBefore)

\* the part that holds: a scale slightly above a power of two goes to it
C17_AboveGoesDown ==
    (Returned("cipher_dot_product") /\ SlightlyOff(DotScaleBefore)
       /\ DotScaleBefore > NearestPowerOfTwo(DotScaleBefore)) =>
        ret.scale = NearestPowerOfTwo(DotScaleBefore)

(***************************************************************************)
(* C18: for every base scale passed to Horner_sigmoid_approx, the scale of *)
(* the accumulator after each rescale is set to that base scale, the scale *)
(* the coefficients are encoded at, so that the addition of the            *)
(* coefficient never meets a scale mismatch.                               *)
(***************************************************************************)
C18_ConfiguredScale ==
    (fn = "Horner_sigmoid_approx" /\ pc \in {"returned", "threw"}) =>
        \A k \in 2 .. Len(locals) :
          IF locals[k].ok THEN locals[k].scale = args.scale
          ELSE locals[k].err # "scale mismatch"

\* the part that holds: with the base scale 2^40 of main every pass leaves
\* the accumulator at the base scale
C18_ScaleOfMain ==
    (fn = "Horner_sigmoid_approx" /\ pc \in {"returned", "threw"}
       /\ args.scale = BaseScale) =>
        \A k \in 2 .. Len(locals) :
          IF locals[k].ok THEN locals[k].scale = args.scale
          ELSE locals[k].err # "scale mismatch"

(***************************************************************************)
(* C19: for every coefficient vector c_0 .. c_d with some coefficient 0,   *)
(* Tree_sigmoid_approx, which skips the encoding of the zero coefficients, *)
(* completes and returns in every slot the sum over i in 0..d of           *)
(* c_i * x^i, given the levels for the powers and the terms.               *)
(***************************************************************************)
SomeZero(coeffs) == \E i \in DOMAIN coeffs : coeffs[i] = 0

TreeHasLevels == args.ctx.level >= CeilLog2(args.degree) + 1

TreeReturnsPolynomial ==
    /\ pc = "returned"
    /\ \A s \in Slots :
         ret.v[s] * args.cden = PolyAt(args.coeffs, args.degree, args.ctx.v[s]) * ret.den

C19_ZeroCoefficientsSkipped ==
    (Entered("Tree_sigmoid_approx") /\ TreeHasLevels /\ SomeZero(args.coeffs)) =>
        TreeReturnsPolynomial

\* the part that holds: without a zero coefficient the evaluation completes
\* and returns the polynomial
C19_NoZeroCoefficient ==
    (Entered("Tree_sigmoid_approx") /\ TreeHasLevels /\ ~ SomeZero(args.coeffs)) =>
        TreeReturnsPolynomial

\* with a zero coefficient the call ends in the exception of the encrypt of
\* line 650 or the mod-switch of line 669
C19_ZeroCoefficientThrows ==
    (Entered("Tree_sigmoid_approx") /\ TreeHasLevels /\ SomeZero(args.coeffs)) =>
        /\ pc = "threw"
        /\ ret.err = "plain is not valid for encryption parameters"
        /\ ret.at \in {650, 669}

(***************************************************************************)
(* C20: in compute_all_powers, for every degree d >= 2 and every i in      *)
(* 2..d, the search over j in 1 .. i/2 finds a split, so the throw of line *)
(* 418 is never taken, and the split it leaves in cand is the smallest j   *)
(* that attains the minimum of max(level(x^j), level(x^(i-j))) + 1, with   *)
(* level(x^1) = 0; that minimum is the level recorded for x^i.             *)
(***************************************************************************)
SplitCost(levels, i, j) == Max(levels[j], levels[i - j]) + 1

SmallestBestSplit(levels, i, cand) ==
    /\ cand \in 1 .. (i \div 2)
    /\ \A j \in 1 .. (i \div 2) :
         /\ SplitCost(levels, i, cand) <= SplitCost(levels, i, j)
         /\ j < cand => SplitCost(levels, i, cand) < SplitCost(levels, i, j)

C20_SplitSearch ==
    /\ (fn \in {"compute_all_powers", "Tree_sigmoid_approx"} /\ pc = "threw") =>
         ~ (ret.err = "error" /\ ret.at = 418)
    /\ Returned("compute_all_powers") =>
         /\ ret.levels[1] = 0
         /\ \A i \in 2 .. args.degree :
              /\ SmallestBestSplit(ret.levels, i, ret.cands[i])
              /\ ret.levels[i] = SplitCost(ret.levels, i, ret.cands[i])

\* x^5: the splits 1 + 4 and 2 + 3 both cost 3 and the first is taken;
\* x^4: the split 2 + 2 costs 2, less than the 3 of 1 + 3, and is taken
C20_Witness ==
    /\ Returned("compute_all_powers")
    /\ args.degree >= 5
    /\ SplitCost(ret.levels, 5, 1) = SplitCost(ret.levels, 5, 2)
    /\ ret.cands[5] = 1
    /\ ret.cands[4] = 2

(***************************************************************************)
(* C21: across the iterations of train_cipher only the weight ciphertext   *)
(* changes: the feature rows, the transposed feature columns and the label *)
(* ciphertext that train_cipher holds keep the values, levels and scales   *)
(* they were passed with after every call of update_weights, whose         *)
(* mod-switches act on its own copies, so every iteration starts with them *)
(* as they were before the first.                                          *)
(***************************************************************************)
C21_OnlyWeightsChange ==
    (fn = "train_cipher" /\ pc # "entry") =>
        /\ locals.features = args.features
        /\ locals.features_T = args.features_T
        /\ locals.labels = args.labels

\* a call of update_weights that brought its copies of labels and of the
\* first column of features_T down the chain, with train_cipher's own still
\* at the top
C21_Witness ==
    /\ fn = "train_cipher" /\ "used" \in DOMAIN locals
    /\ locals.used.labels.level < TopLevel
    /\ locals.used.features_T[1].level < TopLevel
    /\ locals.labels.level = TopLevel
    /\ locals.features_T[1].level = TopLevel

(***************************************************************************)
(* C22: an iteration that starts with weights, features, transposed        *)
(* features and labels at the top of the chain and a sigmoid of degree     *)
(* DEGREE = 3 makes DEGREE + 4 rescales on the way to the new weights: 2   *)
(* in the linear transform, DEGREE in the Horner evaluation, none in the   *)
(* residual, 2 in the gradient, none in the weight update.  With the 7     *)
(* rescales the chain of main has, none is attempted past the last         *)
(* modulus and update_weights returns the new weights at the last level.   *)
(***************************************************************************)
FromEntry == "pred_labels" \in DOMAIN locals

C22_RescaleBudget ==
    (Ended("update_weights") /\ FromEntry /\ args.weights.level = TopLevel) =>
        /\ locals.predictions.ok
        /\ locals.predictions.level = TopLevel - (DEGREE + 2)
        /\ locals.pred_labels.ok
        /\ locals.pred_labels.level = locals.predictions.level
        /\ locals.gradient.ok
        /\ locals.gradient.level = TopLevel - (DEGREE + 4)
        /\ pc = "returned"
        /\ ret.level = TopLevel - (DEGREE + 4)

\* the part that holds: the Predict stage makes its DEGREE + 2 rescales, the
\* residual none, and the weight update, entered with a gradient DEGREE + 4
\* rescales below the top, none
C22_RescalesOfTheStages ==
    /\ (Ended("update_weights") /\ FromEntry /\ args.weights.level = TopLevel) =>
         /\ locals.predictions.ok
         /\ locals.predictions.level = TopLevel - (DEGREE + 2)
         /\ locals.pred_labels.ok
         /\ locals.pred_labels.level = locals.predictions.level
    /\ (Ended("update_weights") /\ "N_pt" \in DOMAIN locals) =>
         /\ locals.gradient.level = TopLevel - (DEGREE + 4)
         /\ locals.gradient.level = 0
         /\ locals.scaled.ok
         /\ locals.scaled.level = locals.gradient.level

\* the iteration ends in the exception of the Gradient stage's multiplication
\* by the mask, or, entered behind it, of the subtraction of the weights
C22_IterationThrows ==
    /\ (Ended("update_weights") /\ FromEntry /\ args.weights.level = TopLevel) =>
         (pc = "threw" /\ ret.err = "parameter mismatch" /\ ret.at = 957)
    /\ (Ended("update_weights") /\ "N_pt" \in DOMAIN locals) =>
         (pc = "threw" /\ ret.err = "parameter mismatch" /\ ret.at = 991)

(***************************************************************************)
(* C23: in compute_all_powers, for every degree d >= 2 and every i in      *)
(* 2..d, the split cand has depth(x^cand) <= depth(x^(i - cand)), so the   *)
(* mod-switch of the copy of powers[cand] to the level of powers[i - cand] *)
(* goes to an equal or lower level, never a higher one, and the operands   *)
(* of the multiplication are at the same level; in the accumulation of     *)
(* Tree_sigmoid_approx the accumulator only has to move down as i grows.   *)
(***************************************************************************)
SwitchedUp(r, lines) ==
    /\ ~ r.ok
    /\ r.err \in {"cannot switch to higher level modulus", "parameter mismatch"}
    /\ r.at \in lines

C23_SwitchesGoDown ==
    /\ (fn \in {"compute_all_powers", "Tree_sigmoid_approx"} /\ pc = "threw") =>
         ~ SwitchedUp(ret, {421, 423, 669, 672, 678, 686})
    /\ Returned("compute_all_powers") =>
         /\ \A i \in 2 .. args.degree :
              /\ ret.levels[ret.cands[i]] <= ret.levels[i - ret.cands[i]]
              /\ ret.powers[ret.cands[i]].level >= ret.powers[i - ret.cands[i]].level
         /\ \A i \in 1 .. (args.degree - 1) :
              ret.powers[i + 1].level <= ret.powers[i].level
    /\ Returned("Tree_sigmoid_approx") =>
         ret.level = args.ctx.level - CeilLog2(args.degree) - 1

\* x^3 = x * x^2: the copy of x is brought one level down to x^2; and a tree
\* accumulation of degree 3 that ended three levels below x
C23_Witness ==
    \/ /\ Returned("compute_all_powers")
       /\ args.degree >= 3
       /\ ret.cands[3] = 1
       /\ ret.powers[1].level = ret.powers[2].level + 1
       /\ ret.powers[3].level = ret.powers[2].level - 1
    \/ /\ Returned("Tree_sigmoid_approx")
       /\ args.degree = 3
       /\ ret.level = args.ctx.level - 3

(***************************************************************************)
(* C24: for each DEGREE in {3, 5, 7} and every x, the plaintext reference  *)
(* sigmoid_approx_three(x) equals the sum over i of c_i * (x / 8)^i with   *)
(* the c_i of main's coefficient table of that degree, the polynomial      *)
(* Horner_sigmoid_approx evaluates on the encrypted x / 8.                 *)
(***************************************************************************)
\* the numerator of the table's polynomial at y, over the table's den
TablePolynomial(table, y) == PolyAt(table.coeffs, Len(table.coeffs) - 1, y)

C24_ReferenceIsTablePolynomial ==
    (Returned("sigmoid_approx_three") /\ args.DEGREE \in {3, 5, 7}) =>
        /\ ret.den = MainCoeffs(args.DEGREE).den
        /\ ret.num = TablePolynomial(MainCoeffs(args.DEGREE), args.x \div 8)

\* what the reference is off by, with y = x / 8 and in units of 1 / den: the
\* coefficient of y is 1.20096 for the table's 1.20069, the table's terms
\* 0.00001 * y^2k are missing, and the last term of degree 7 has y^3 for y^7
RefGap(degree, y) ==
    IF degree = 3 THEN (27 * y) - Pow(y, 2)
    ELSE IF degree = 5 THEN - (100 * Pow(y, 2)) - (100 * Pow(y, 4))
    ELSE - Pow(y, 2) - Pow(y, 4) - Pow(y, 6) + (250739 * (Pow(y, 7) - Pow(y, 3)))

C24_ReferenceGap ==
    (Returned("sigmoid_approx_three") /\ args.DEGREE \in {3, 5, 7}) =>
        /\ ret.den = MainCoeffs(args.DEGREE).den
        /\ ret.num - TablePolynomial(MainCoeffs(args.DEGREE), args.x \div 8)
             = RefGap(args.DEGREE, args.x \div 8)

====
